---- MODULE Spec2Model ----
(***************************************************************************)
(* The PDF extraction servers of legal-case-management-ai.                 *)
(*                                                                         *)
(*   "model"    : src/docker/pdf-extract-kit/api_server.py                 *)
(*   "fallback" : src/scripts/pdf_extract_server.py                        *)
(*                                                                         *)
(* Both are Flask processes listening on port 8001, so one process is one  *)
(* or the other: `server` says which.  Text is a sequence of one-character *)
(* strings, an f-string is the sequence of its pieces, a confidence is in  *)
(* hundredths (90 is 0.9) and a coordinate is in half points (41 is 20.5), *)
(* so that int() of a coordinate really truncates.                         *)
(***************************************************************************)
EXTENDS Integers, Sequences, FiniteSets, TLC

VARIABLES
    server,          \* which of the two programs this process runs
    layout_model,    \* api_server.py globals (TRUE: set, FALSE: None)
    table_model,
    formula_model,
    ocr_model,
    models_loaded,   \* pdf_extract_server.py globals
    layout_detector,
    table_extractor,
    ocr_engine,
    tmp_files,       \* the paths that exist in the temporary directory
    request,         \* what the handler read of the request handled last
    response,        \* its response, until the request context is torn down
    pc,              \* threaded serving: each worker thread's position
    t_path,          \* threaded serving: each thread's temp_path
    t_ok             \* threaded serving: what each thread's last call gave

vars == <<server, layout_model, table_model, formula_model, ocr_model,
          models_loaded, layout_detector, table_extractor, ocr_engine,
          tmp_files, request, response, pc, t_path, t_ok>>

model_vars == <<layout_model, table_model, formula_model, ocr_model>>
fallback_vars == <<models_loaded, layout_detector, table_extractor, ocr_engine>>
thread_vars == <<pc, t_path, t_ok>>

----------------------------------------------------------------------------
(* Bounds of the model.                                                    *)

MaxPages == 2        \* pages of an uploaded document
MaxElements == 2     \* regions (or content items) of a document, all pages
MaxSize == 4         \* pages plus regions of an uploaded document
NumThreads == 2      \* worker threads of the threaded server

----------------------------------------------------------------------------
(* Text helpers.                                                           *)

Space == <<" ">>
Newline == <<"\n">>
Hi == <<"H", "i">>

RECURSIVE Flatten(_)
Flatten(ss) == IF ss = <<>> THEN <<>> ELSE Head(ss) \o Flatten(Tail(ss))

\* int(x) of a coordinate held in half points: truncation towards zero.
int(h) == IF h >= 0 THEN h \div 2 ELSE -((-h) \div 2)

\* all(...) over the four model handles of api_server.py
all_models == layout_model /\ table_model /\ formula_model /\ ocr_model

----------------------------------------------------------------------------
(* Python dictionaries are records; d.get(k, default) and d[k] = v.        *)

EmptyDict == [k \in {} |-> TRUE]
Get(d, k, default) == IF k \in DOMAIN d THEN d[k] ELSE default
SetKey(d, k, v) == [x \in DOMAIN d \cup {k} |-> IF x = k THEN v ELSE d[x]]

----------------------------------------------------------------------------
(* Uploaded documents.  A document is a sequence of pages and a page a     *)
(* sequence of items.  Paginations(S) is every way of laying at most       *)
(* MaxElements items of S, in order, on at most MaxPages pages, for the    *)
(* documents of at most MaxSize pages and items together.                  *)

SeqsUpTo(S, n) == UNION {[1..k -> S] : k \in 0..n}

Monotone(m, p) ==
    {f \in [1..m -> 1..p] : \A i \in 1..m : \A j \in i..m : f[i] <= f[j]}

OnPage(es, f, i) ==
    LET RECURSIVE Pick(_)
        Pick(j) == IF j > Len(es) THEN <<>>
                   ELSE IF f[j] = i THEN <<es[j]>> \o Pick(j + 1)
                   ELSE Pick(j + 1)
    IN Pick(1)

Paginate(es, f, p) ==
    [i \in 1..p |-> [width |-> 612, height |-> 792, elements |-> OnPage(es, f, i)]]

Paginations(S) ==
    LET sizes == {d \in SeqsUpTo(S, MaxElements) \X (0..MaxPages) :
                     Len(d[1]) + d[2] <= MaxSize}
    IN UNION {{Paginate(d[1], f, d[2]) : f \in Monotone(Len(d[1]), d[2])} :
                 d \in sizes}

Booleans == {TRUE, FALSE}

\* request.form: the four extraction flags and the output format
Flags == [extract_text : Booleans, extract_tables : Booleans,
          extract_images : Booleans, extract_formulas : Booleans]
OutputFormats == {"json", "html", "markdown"}

\* request.files['file'].filename; NoFile: the request has no file part
Filenames == {"a.pdf", "b.pdf"}
NoFile == "<none>"
\* the uploads of the requests served one at a time
UploadNames == {"a.pdf", "", NoFile}

----------------------------------------------------------------------------
(* What the layout model and the extractors of api_server.py give for an   *)
(* uploaded document: each region is the element layout_model.detect       *)
(* returns (type, bbox, confidence when the detector reports one) together *)
(* with what the matching extractor does on that region.                   *)

TextTypes == {"text", "title", "header"}
ImageTypes == {"image", "figure"}
ElementTypes == TextTypes \cup ImageTypes \cup {"table", "formula"}

TableOut == [data |-> << <<"1", "2">> >>, headers |-> <<"A", "B">>,
             html |-> <<"<table>1</table>">>, markdown |-> <<"|A|B|">>,
             confidence |-> 85]

Regions ==
    { [type |-> "text", bbox |-> <<0, 0, 200, 40>>, confidence |-> 90,
       ocr |-> [raises |-> FALSE, text |-> Hi]],
      [type |-> "title", bbox |-> <<41, 21, 200, 80>>,
       ocr |-> [raises |-> TRUE]],
      [type |-> "header", bbox |-> <<0, 0, 200, 40>>, confidence |-> 70,
       ocr |-> [raises |-> FALSE, text |-> <<"A">>]],
      [type |-> "table", bbox |-> <<0, 100, 400, 300>>, confidence |-> 95,
       table |-> [raises |-> FALSE, result |-> TableOut]],
      [type |-> "table", bbox |-> <<3, 100, 400, 300>>,
       table |-> [raises |-> TRUE]],
      [type |-> "table", bbox |-> <<0, 300, 400, 500>>, confidence |-> 80,
       table |-> [raises |-> FALSE,
                  result |-> [data |-> << <<"3">>, <<"4">> >>,
                              html |-> <<"<table>34</table>">>,
                              markdown |-> <<"|3|4|">>]]],
      [type |-> "formula", bbox |-> <<20, 40, 120, 142>>, confidence |-> 60,
       formula |-> [raises |-> FALSE, result |-> [latex |-> <<"x">>]]],
      [type |-> "formula", bbox |-> <<20, 40, 120, 140>>, confidence |-> 60,
       formula |-> [raises |-> FALSE,
                    result |-> [latex |-> <<"y">>, confidence |-> 75]]],
      [type |-> "formula", bbox |-> <<20, 41, 120, 160>>, confidence |-> 60,
       formula |-> [raises |-> TRUE]],
      [type |-> "image", bbox |-> <<10, 10, 50, 50>>, confidence |-> 88,
       image |-> [fails |-> "no"]],
      [type |-> "figure", bbox |-> <<11, 10, 50, 50>>, confidence |-> 88,
       image |-> [fails |-> "render"]] }

\* layout_model.detect(pdf_path) raises on a file it cannot read
ModelPdfs ==
    {[readable |-> FALSE, pages |-> <<>>]}
        \cup {[readable |-> TRUE, pages |-> ps] : ps \in Paginations(Regions)}

----------------------------------------------------------------------------
(* api_server.py: the region extractors.                                    *)

\* f"{kind}_{page_num}_{int(bbox[0])}_{int(bbox[1])}"
RegionId(kind, page_num, bbox) ==
    <<kind, "_", ToString(page_num), "_", ToString(int(bbox[1])),
      "_", ToString(int(bbox[2]))>>

extract_table(page_num, region) ==
    IF region.table.raises
    THEN [id |-> RegionId("table", page_num, region.bbox),
          bbox |-> region.bbox, html |-> <<>>, markdown |-> <<>>,
          data |-> <<>>, headers |-> <<>>, confidence |-> 0]
    ELSE LET table_result == region.table.result
         IN [id |-> RegionId("table", page_num, region.bbox),
             bbox |-> region.bbox,
             html |-> Get(table_result, "html", <<>>),
             markdown |-> Get(table_result, "markdown", <<>>),
             data |-> Get(table_result, "data", <<>>),
             headers |-> Get(table_result, "headers", <<>>),
             confidence |-> Get(table_result, "confidence", 90)]

\* bbox[3] - bbox[1] > 50, in half points
extract_formula(page_num, region) ==
    IF region.formula.raises
    THEN [id |-> RegionId("formula", page_num, region.bbox),
          bbox |-> region.bbox, type |-> "unknown", latex |-> <<>>,
          confidence |-> 0]
    ELSE LET formula_result == region.formula.result
         IN [id |-> RegionId("formula", page_num, region.bbox),
             bbox |-> region.bbox,
             type |-> IF region.bbox[4] - region.bbox[2] > 2 * 50
                      THEN "block" ELSE "inline",
             latex |-> Get(formula_result, "latex", <<>>),
             confidence |-> Get(formula_result, "confidence", 90)]

\* The image extractor opens the document itself.  `opened` counts the
\* handles it opened and did not close: doc.close() is on the path without
\* an exception only.
extract_image(page_num, region) ==
    IF region.image.fails = "no"
    THEN [data |-> [id |-> RegionId("image", page_num, region.bbox),
                    bbox |-> region.bbox, base64 |-> <<"png">>,
                    type |-> "figure", confidence |-> 95],
          opened |-> 0]
    ELSE [data |-> [id |-> RegionId("image", page_num, region.bbox),
                    bbox |-> region.bbox, base64 |-> <<>>,
                    type |-> "unknown", confidence |-> 0],
          opened |-> IF region.image.fails = "render" THEN 1 ELSE 0]

----------------------------------------------------------------------------
(* api_server.py: process_pdf.  The state of the run is the result built   *)
(* so far, the page under construction, whether an exception has left the  *)
(* function, and the document handles left open.                           *)

EmptyResult ==
    [text |-> <<>>, layout |-> [pages |-> <<>>], tables |-> <<>>,
     images |-> <<>>, formulas |-> <<>>, metadata |-> EmptyDict]

Metadata(result) ==
    [totalPages |-> Len(result.layout.pages),
     totalTables |-> Len(result.tables),
     totalImages |-> Len(result.images),
     totalFormulas |-> Len(result.formulas),
     textLength |-> Len(result.text)]

\* The loop body with the table put at the front of result['tables']
\* (insert(0, ...) for append).
ProcessElement_table_first(run, page_num, element, flags, ocr) ==
    LET elem_data == [type |-> element.type, bbox |-> element.bbox,
                      confidence |-> Get(element, "confidence", 100)]
        do_text == flags.extract_text /\ element.type \in TextTypes /\ ocr
        do_table == flags.extract_tables /\ element.type = "table"
        do_formula == flags.extract_formulas /\ element.type = "formula"
        do_image == flags.extract_images /\ element.type \in ImageTypes
    IN  IF do_text
        THEN IF element.ocr.raises
             THEN [run EXCEPT !.raised = TRUE]
             ELSE [run EXCEPT
                     !.result.text = @ \o element.ocr.text \o Space,
                     !.page_data.elements =
                         Append(@, SetKey(elem_data, "content", element.ocr.text))]
        ELSE IF do_table
        THEN LET table_data ==
                     SetKey(extract_table(page_num, element), "pageNumber", page_num)
             IN [run EXCEPT
                   !.result.tables = <<table_data>> \o @,
                   !.page_data.elements =
                       Append(@, SetKey(elem_data, "content",
                           <<"Table with ", ToString(Len(table_data.data)), " rows">>))]
        ELSE IF do_formula
        THEN LET formula_data ==
                     SetKey(extract_formula(page_num, element), "pageNumber", page_num)
             IN [run EXCEPT
                   !.result.formulas = Append(@, formula_data),
                   !.page_data.elements =
                       Append(@, SetKey(elem_data, "content", formula_data.latex))]
        ELSE IF do_image
        THEN LET got == extract_image(page_num, element)
                 image_data == SetKey(got.data, "pageNumber", page_num)
             IN [run EXCEPT
                   !.result.images = Append(@, image_data),
                   !.open_docs = @ + got.opened,
                   !.page_data.elements =
                       Append(@, SetKey(elem_data, "content", <<"Image">>))]
        ELSE [run EXCEPT !.page_data.elements = Append(@, elem_data)]

\* The loop body with the summary of a table counting its headers
\* (len(table_data['headers']) for len(table_data['data'])).
ProcessElement_counts_headers(run, page_num, element, flags, ocr) ==
    LET elem_data == [type |-> element.type, bbox |-> element.bbox,
                      confidence |-> Get(element, "confidence", 100)]
        do_text == flags.extract_text /\ element.type \in TextTypes /\ ocr
        do_table == flags.extract_tables /\ element.type = "table"
        do_formula == flags.extract_formulas /\ element.type = "formula"
        do_image == flags.extract_images /\ element.type \in ImageTypes
    IN  IF do_text
        THEN IF element.ocr.raises
             THEN [run EXCEPT !.raised = TRUE]
             ELSE [run EXCEPT
                     !.result.text = @ \o element.ocr.text \o Space,
                     !.page_data.elements =
                         Append(@, SetKey(elem_data, "content", element.ocr.text))]
        ELSE IF do_table
        THEN LET table_data ==
                     SetKey(extract_table(page_num, element), "pageNumber", page_num)
             IN [run EXCEPT
                   !.result.tables = Append(@, table_data),
                   !.page_data.elements =
                       Append(@, SetKey(elem_data, "content",
                           <<"Table with ", ToString(Len(table_data.headers)), " rows">>))]
        ELSE IF do_formula
        THEN LET formula_data ==
                     SetKey(extract_formula(page_num, element), "pageNumber", page_num)
             IN [run EXCEPT
                   !.result.formulas = Append(@, formula_data),
                   !.page_data.elements =
                       Append(@, SetKey(elem_data, "content", formula_data.latex))]
        ELSE IF do_image
        THEN LET got == extract_image(page_num, element)
                 image_data == SetKey(got.data, "pageNumber", page_num)
             IN [run EXCEPT
                   !.result.images = Append(@, image_data),
                   !.open_docs = @ + got.opened,
                   !.page_data.elements =
                       Append(@, SetKey(elem_data, "content", <<"Image">>))]
        ELSE [run EXCEPT !.page_data.elements = Append(@, elem_data)]

\* The loop body leaving out the element nothing was extracted for (the
\* append of line 209 made only under the four tests).
ProcessElement_skips_unextracted(run, page_num, element, flags, ocr) ==
    LET elem_data == [type |-> element.type, bbox |-> element.bbox,
                      confidence |-> Get(element, "confidence", 100)]
        do_text == flags.extract_text /\ element.type \in TextTypes /\ ocr
        do_table == flags.extract_tables /\ element.type = "table"
        do_formula == flags.extract_formulas /\ element.type = "formula"
        do_image == flags.extract_images /\ element.type \in ImageTypes
    IN  IF do_text
        THEN IF element.ocr.raises
             THEN [run EXCEPT !.raised = TRUE]
             ELSE [run EXCEPT
                     !.result.text = @ \o element.ocr.text \o Space,
                     !.page_data.elements =
                         Append(@, SetKey(elem_data, "content", element.ocr.text))]
        ELSE IF do_table
        THEN LET table_data ==
                     SetKey(extract_table(page_num, element), "pageNumber", page_num)
             IN [run EXCEPT
                   !.result.tables = Append(@, table_data),
                   !.page_data.elements =
                       Append(@, SetKey(elem_data, "content",
                           <<"Table with ", ToString(Len(table_data.data)), " rows">>))]
        ELSE IF do_formula
        THEN LET formula_data ==
                     SetKey(extract_formula(page_num, element), "pageNumber", page_num)
             IN [run EXCEPT
                   !.result.formulas = Append(@, formula_data),
                   !.page_data.elements =
                       Append(@, SetKey(elem_data, "content", formula_data.latex))]
        ELSE IF do_image
        THEN LET got == extract_image(page_num, element)
                 image_data == SetKey(got.data, "pageNumber", page_num)
             IN [run EXCEPT
                   !.result.images = Append(@, image_data),
                   !.open_docs = @ + got.opened,
                   !.page_data.elements =
                       Append(@, SetKey(elem_data, "content", <<"Image">>))]
        ELSE run

\* One pass of the loop body over `element` (lines 170-209).
ProcessElement(run, page_num, element, flags, ocr) ==
    LET elem_data == [type |-> element.type, bbox |-> element.bbox,
                      confidence |-> Get(element, "confidence", 100)]
        do_text == flags.extract_text /\ element.type \in TextTypes /\ ocr
        do_table == flags.extract_tables /\ element.type = "table"
        do_formula == flags.extract_formulas /\ element.type = "formula"
        do_image == flags.extract_images /\ element.type \in ImageTypes
    IN  IF do_text
        THEN IF element.ocr.raises
             THEN [run EXCEPT !.raised = TRUE]
             ELSE [run EXCEPT
                     !.result.text = @ \o element.ocr.text \o Space,
                     !.page_data.elements =
                         Append(@, SetKey(elem_data, "content", element.ocr.text))]
        ELSE IF do_table
        THEN LET table_data ==
                     SetKey(extract_table(page_num, element), "pageNumber", page_num)
             IN [run EXCEPT
                   !.result.tables = Append(@, table_data),
                   !.page_data.elements =
                       Append(@, SetKey(elem_data, "content",
                           <<"Table with ", ToString(Len(table_data.data)), " rows">>))]
        ELSE IF do_formula
        THEN LET formula_data ==
                     SetKey(extract_formula(page_num, element), "pageNumber", page_num)
             IN [run EXCEPT
                   !.result.formulas = Append(@, formula_data),
                   !.page_data.elements =
                       Append(@, SetKey(elem_data, "content", formula_data.latex))]
        ELSE IF do_image
        THEN LET got == extract_image(page_num, element)
                 image_data == SetKey(got.data, "pageNumber", page_num)
             IN [run EXCEPT
                   !.result.images = Append(@, image_data),
                   !.open_docs = @ + got.opened,
                   !.page_data.elements =
                       Append(@, SetKey(elem_data, "content", <<"Image">>))]
        ELSE [run EXCEPT !.page_data.elements = Append(@, elem_data)]

RECURSIVE ProcessElements(_, _, _, _, _)
ProcessElements(run, page_num, elements, flags, ocr) ==
    IF elements = <<>> \/ run.raised THEN run
    ELSE ProcessElements(ProcessElement(run, page_num, Head(elements), flags, ocr),
                         page_num, Tail(elements), flags, ocr)

\* One pass of the page loop (lines 161-211); enumerate(..., 1) numbers
\* the pages from 1.
ProcessPage(run, page_num, page_layout, flags, ocr) ==
    LET start == [run EXCEPT !.page_data =
                      [pageNumber |-> page_num, width |-> page_layout.width,
                       height |-> page_layout.height, elements |-> <<>>]]
        done == ProcessElements(start, page_num, page_layout.elements, flags, ocr)
    IN  IF done.raised THEN done
        ELSE [done EXCEPT !.result.layout.pages = Append(@, done.page_data)]

RECURSIVE ProcessPages(_, _, _, _, _)
ProcessPages(run, page_num, pages, flags, ocr) ==
    IF pages = <<>> \/ run.raised THEN run
    ELSE ProcessPages(ProcessPage(run, page_num, Head(pages), flags, ocr),
                      page_num + 1, Tail(pages), flags, ocr)

\* process_pdf with enumerate(layout_results['pages']) left at its default
\* start: the pages are numbered from 0
process_pdf_enumerate_from_zero(pdf, flags, ocr) ==
    LET run0 == [result |-> EmptyResult, page_data |-> EmptyDict,
                 raised |-> FALSE, open_docs |-> 0]
    IN  IF ~pdf.readable THEN [run0 EXCEPT !.raised = TRUE]
        ELSE LET run == ProcessPages(run0, 0, pdf.pages, flags, ocr)
             IN IF run.raised THEN run
                ELSE [run EXCEPT !.result.metadata = Metadata(run.result)]

\* process_pdf(pdf_path, flags): [raised, result, open_docs]; `ocr` is the
\* global ocr_model as the call finds it
process_pdf(pdf, flags, ocr) ==
    LET run0 == [result |-> EmptyResult, page_data |-> EmptyDict,
                 raised |-> FALSE, open_docs |-> 0]
    IN  IF ~pdf.readable THEN [run0 EXCEPT !.raised = TRUE]
        ELSE LET run == ProcessPages(run0, 1, pdf.pages, flags, ocr)
             IN IF run.raised THEN run
                ELSE [run EXCEPT !.result.metadata = Metadata(run.result)]

----------------------------------------------------------------------------
(* What PyMuPDF gives pdf_extract_server.py for an uploaded document.  An  *)
(* item of a page is a text line of a text block (its spans and the        *)
(* block's bbox), an embedded image (the Pixmap built from it, or the      *)
(* failure to build one) or a table find_tables() detects (the rows        *)
(* extract() returns, or the failure of extract()/to_pandas()).            *)

Contents ==
    { [kind |-> "line", bbox |-> <<0, 0, 200, 40>>,
       spans |-> << <<"H">>, <<"i", " ">> >>],
      [kind |-> "line", bbox |-> <<0, 40, 200, 80>>, spans |-> << <<" ">> >>],
      [kind |-> "image", raises |-> FALSE, n |-> 3, alpha |-> 0,
       width |-> 10, height |-> 20],
      [kind |-> "image", raises |-> FALSE, n |-> 4, alpha |-> 0,
       width |-> 30, height |-> 40],
      [kind |-> "image", raises |-> TRUE],
      [kind |-> "table", bbox |-> <<0, 100, 400, 300>>, raises |-> FALSE,
       rows |-> << <<"A", "B">>, <<"1", "2">> >>],
      [kind |-> "table", bbox |-> <<0, 500, 400, 700>>, raises |-> TRUE] }

\* fitz.open(pdf_path) raises on a file it cannot read
FallbackPdfs ==
    {[readable |-> FALSE, pages |-> <<>>]}
        \cup {[readable |-> TRUE, pages |-> ps] : ps \in Paginations(Contents)}

OfKind(items, kind) == SelectSeq(items, LAMBDA it : it.kind = kind)

\* str.strip() and ' '.join(...)
Whitespace == {" ", "\n", "\t"}

RECURSIVE lstrip(_)
lstrip(s) == IF s # <<>> /\ Head(s) \in Whitespace THEN lstrip(Tail(s)) ELSE s

RECURSIVE rstrip(_)
rstrip(s) == IF s # <<>> /\ s[Len(s)] \in Whitespace
             THEN rstrip(SubSeq(s, 1, Len(s) - 1)) ELSE s

strip(s) == rstrip(lstrip(s))

RECURSIVE join(_, _)
join(sep, parts) ==
    IF parts = <<>> THEN <<>>
    ELSE IF Len(parts) = 1 THEN Head(parts)
    ELSE Head(parts) \o sep \o join(sep, Tail(parts))

\* page.get_text(): the spans of each line, then a line break
get_text(page) ==
    LET lines == OfKind(page.elements, "line")
    IN Flatten([i \in 1..Len(lines) |-> Flatten(lines[i].spans) \o Newline])

ExtractionFailed ==
    <<"E", "x", "t", "r", "a", "c", "t", "i", "o", "n", " ",
      "f", "a", "i", "l", "e", "d">>

----------------------------------------------------------------------------
(* pdf_extract_server.py: extract_with_basic_tools.                        *)

\* lines 99-111: one element per text line that is not blank
RECURSIVE LineElements(_)
LineElements(lines) ==
    IF lines = <<>> THEN <<>>
    ELSE LET line == Head(lines)
             line_text == join(Space, line.spans)
         IN (IF strip(line_text) # <<>>
             THEN << [type |-> "text", bbox |-> line.bbox,
                      content |-> strip(line_text), confidence |-> 90] >>
             ELSE <<>>) \o LineElements(Tail(lines))

\* lines 114-141: the images of a page, in get_images() order; img_index
\* counts from 0; building a Pixmap may raise
RECURSIVE BasicImages(_, _, _, _)
BasicImages(run, page_num, image_list, img_index) ==
    IF image_list = <<>> \/ run.raised THEN run
    ELSE LET pix == Head(image_list)
             next ==
               IF pix.raises THEN [run EXCEPT !.raised = TRUE]
               ELSE IF pix.n - pix.alpha < 4
               THEN [run EXCEPT
                       !.result.images = Append(@,
                           [id |-> <<"img", "_", ToString(page_num), "_",
                                     ToString(img_index)>>,
                            pageNumber |-> page_num + 1,
                            bbox |-> <<0, 0, 2 * pix.width, 2 * pix.height>>,
                            base64 |-> <<"png">>, type |-> "photo",
                            confidence |-> 80,
                            width |-> pix.width, height |-> pix.height]),
                       !.elements = Append(@,
                           [type |-> "image",
                            bbox |-> <<0, 0, 2 * pix.width, 2 * pix.height>>,
                            content |-> <<"Image">>, confidence |-> 80])]
               ELSE run
         IN BasicImages(next, page_num, Tail(image_list), img_index + 1)

\* lines 144-171: the tables of a page; a table whose extraction raises is
\* logged and skipped
RECURSIVE BasicTables(_, _, _, _)
BasicTables(run, page_num, tables, table_index) ==
    IF tables = <<>> THEN run
    ELSE LET table == Head(tables)
             next ==
               IF table.raises THEN run
               ELSE LET table_data == table.rows
                        headers == IF table_data # <<>> THEN table_data[1] ELSE <<>>
                        data == IF Len(table_data) > 1 THEN Tail(table_data) ELSE <<>>
                    IN [run EXCEPT
                          !.result.tables = Append(@,
                              [id |-> <<"table", "_", ToString(page_num), "_",
                                        ToString(table_index)>>,
                               pageNumber |-> page_num + 1,
                               bbox |-> table.bbox,
                               html |-> <<"<table border=1>">>,
                               markdown |-> <<>>,
                               data |-> data, headers |-> headers,
                               confidence |-> 80,
                               rows |-> Len(data), columns |-> Len(headers)]),
                          !.elements = Append(@,
                              [type |-> "table", bbox |-> table.bbox,
                               content |-> <<"Table with ", ToString(Len(data)),
                                             " rows">>,
                               confidence |-> 80])]
         IN BasicTables(next, page_num, Tail(tables), table_index + 1)

\* lines 88-179: range(len(doc)) numbers the pages from 0
RECURSIVE BasicPages(_, _, _)
BasicPages(run, page_num, pages) ==
    IF pages = <<>> \/ run.raised THEN run
    ELSE LET page == Head(pages)
             texted == [run EXCEPT
                          !.result.text = @ \o get_text(page) \o Newline,
                          !.elements = LineElements(OfKind(page.elements, "line"))]
             imaged == BasicImages(texted, page_num,
                                   OfKind(page.elements, "image"), 0)
             tabled == BasicTables(imaged, page_num,
                                   OfKind(page.elements, "table"), 0)
             next == IF imaged.raised THEN imaged
                     ELSE [tabled EXCEPT !.result.layout.pages = Append(@,
                              [pageNumber |-> page_num + 1,
                               width |-> page.width, height |-> page.height,
                               elements |-> tabled.elements])]
         IN BasicPages(next, page_num + 1, Tail(pages))

\* extract_with_basic_tools with the image entries appended to
\* result['formulas'] as well
extract_with_basic_tools_images_as_formulas(pdf) ==
    LET failed == [text |-> ExtractionFailed, layout |-> [pages |-> <<>>],
                   tables |-> <<>>, images |-> <<>>, formulas |-> <<>>,
                   metadata |-> [error |-> <<"str(e)">>]]
        run == BasicPages([result |-> EmptyResult, elements |-> <<>>,
                           raised |-> FALSE], 0, pdf.pages)
        result == [run.result EXCEPT !.formulas = run.result.images]
    IN  IF ~pdf.readable THEN [result |-> failed, open_docs |-> 0]
        ELSE IF run.raised THEN [result |-> failed, open_docs |-> 1]
        ELSE [result |-> [result EXCEPT !.metadata =
                             SetKey(Metadata(result), "extractionMethod",
                                    <<"PyMuPDF-basic">>)],
              open_docs |-> 0]

\* extract_with_basic_tools(pdf_path): [result, open_docs]; it never raises.
\* doc.close() is reached on the path without an exception only.
extract_with_basic_tools(pdf) ==
    LET failed == [text |-> ExtractionFailed, layout |-> [pages |-> <<>>],
                   tables |-> <<>>, images |-> <<>>, formulas |-> <<>>,
                   metadata |-> [error |-> <<"str(e)">>]]
        run == BasicPages([result |-> EmptyResult, elements |-> <<>>,
                           raised |-> FALSE], 0, pdf.pages)
    IN  IF ~pdf.readable THEN [result |-> failed, open_docs |-> 0]
        ELSE IF run.raised THEN [result |-> failed, open_docs |-> 1]
        ELSE [result |-> [run.result EXCEPT !.metadata =
                             SetKey(Metadata(run.result), "extractionMethod",
                                    <<"PyMuPDF-basic">>)],
              open_docs |-> 0]

\* extract_with_pdf_extract_kit(pdf_path): the full pipeline is not written
extract_with_pdf_extract_kit(pdf) == extract_with_basic_tools(pdf)

----------------------------------------------------------------------------
(* api_server.py: the renderers.  A rendering is the sequence of the       *)
(* pieces appended to the output string.                                   *)

\* format_as_html without the test of data['text']: the text section is
\* always written
format_as_html_always_text(data) ==
    <<"<html><body>", "<h1>Extracted Document</h1>",
      "<p>Pages: ", ToString(data.metadata.totalPages), "</p>">>
    \o <<"<h2>Text Content</h2>", "<p>">> \o data.text \o <<"</p>">>
    \o (IF data.tables # <<>>
        THEN <<"<h2>Tables (", ToString(Len(data.tables)), ")</h2>">>
             \o Flatten([i \in 1..Len(data.tables) |-> data.tables[i].html])
        ELSE <<>>)
    \o <<"</body></html>">>

format_as_html(data) ==
    <<"<html><body>", "<h1>Extracted Document</h1>",
      "<p>Pages: ", ToString(data.metadata.totalPages), "</p>">>
    \o (IF data.text # <<>>
        THEN <<"<h2>Text Content</h2>", "<p>">> \o data.text \o <<"</p>">>
        ELSE <<>>)
    \o (IF data.tables # <<>>
        THEN <<"<h2>Tables (", ToString(Len(data.tables)), ")</h2>">>
             \o Flatten([i \in 1..Len(data.tables) |-> data.tables[i].html])
        ELSE <<>>)
    \o <<"</body></html>">>

\* format_as_markdown embedding table['html'] for table['markdown']
format_as_markdown_embeds_html(data) ==
    <<"# Extracted Document\n\n",
      "**Pages:** ", ToString(data.metadata.totalPages), "\n\n">>
    \o (IF data.text # <<>>
        THEN <<"## Text Content\n\n">> \o data.text \o <<"\n\n">>
        ELSE <<>>)
    \o (IF data.tables # <<>>
        THEN <<"## Tables (", ToString(Len(data.tables)), ")\n\n">>
             \o Flatten([i \in 1..Len(data.tables) |->
                            data.tables[i].html \o <<"\n\n">>])
        ELSE <<>>)

format_as_markdown(data) ==
    <<"# Extracted Document\n\n",
      "**Pages:** ", ToString(data.metadata.totalPages), "\n\n">>
    \o (IF data.text # <<>>
        THEN <<"## Text Content\n\n">> \o data.text \o <<"\n\n">>
        ELSE <<>>)
    \o (IF data.tables # <<>>
        THEN <<"## Tables (", ToString(Len(data.tables)), ")\n\n">>
             \o Flatten([i \in 1..Len(data.tables) |->
                            data.tables[i].markdown \o <<"\n\n">>])
        ELSE <<>>)

----------------------------------------------------------------------------
(* Requests and responses.  `kind` says what a response carries: "none"    *)
(* (no request is being answered), "error", "document" (with the result    *)
(* the extraction returned, the body sent, and the document handles the    *)
(* request opened and has not closed) or "status".                         *)

NoRequest == [endpoint |-> "none"]
NoResponse == [kind |-> "none", status |-> 0]

ErrorResponse(status, error, open_docs) ==
    [kind |-> "error", status |-> status, error |-> error,
     open_docs |-> open_docs]

DocumentResponse(output_format, result, open_docs) ==
    [kind |-> "document", status |-> 200, format |-> output_format,
     result |-> result, open_docs |-> open_docs]

\* the response of a request whose handler has reached the extraction call
Processing == [kind |-> "processing", status |-> 0]

\* lines 122-128: what is sent for a document
Body(resp) ==
    IF resp.format = "html" THEN format_as_html(resp.result)
    ELSE IF resp.format = "markdown" THEN format_as_markdown(resp.result)
    ELSE <<"jsonify(result)">>

\* lines 313 and 332: data['metadata']['totalPages'] is a KeyError on a
\* result whose metadata has no such key
RenderRaises(output_format, data) ==
    /\ output_format \in {"html", "markdown"}
    /\ "totalPages" \notin DOMAIN data.metadata

\* f'/tmp/{pdf_file.filename}'
TempPath(filename) == <<"/tmp/", filename>>

----------------------------------------------------------------------------
(* api_server.py: initialize_models.  `raised_at` is the step of the try   *)
(* block that raises, "none" when none does; the assignments made before   *)
(* it stay.                                                                *)

InitSteps == <<"import", "layout", "table", "formula", "ocr", "none">>
InitOutcomes == {InitSteps[i] : i \in 1..Len(InitSteps)}
StepIndex(step) == CHOOSE i \in 1..Len(InitSteps) : InitSteps[i] = step

initialize_models(raised_at) ==
    [layout_model |-> layout_model \/ StepIndex(raised_at) > StepIndex("layout"),
     table_model |-> table_model \/ StepIndex(raised_at) > StepIndex("table"),
     formula_model |-> formula_model \/ StepIndex(raised_at) > StepIndex("formula"),
     ocr_model |-> ocr_model \/ StepIndex(raised_at) > StepIndex("ocr"),
     ok |-> raised_at = "none"]

----------------------------------------------------------------------------
(* api_server.py: the request handlers, one request at a time.  A handler  *)
(* runs when no response is pending and leaves its response in `response`; *)
(* finish_request tears the request context down.                          *)

A_health_check ==
    /\ server = "model" /\ response.kind = "none"
    /\ request' = [endpoint |-> "/health"]
    /\ response' = [kind |-> "status", status |-> 200,
                    models_loaded |-> all_models]
    /\ UNCHANGED <<server, model_vars, fallback_vars, tmp_files, thread_vars>>

\* the checks of lines 87-92 made after the upload is saved (line 103)
A_reject_after_save(filename) ==
    /\ request' = [endpoint |-> "/extract", filename |-> filename]
    /\ response' = ErrorResponse(400,
                       IF filename = NoFile THEN "No file provided"
                       ELSE "Empty filename", 0)
    /\ tmp_files' = tmp_files \cup {TempPath(filename)}
    /\ UNCHANGED model_vars

\* lines 87-92: the request is rejected before anything is read or written
A_reject(filename) ==
    /\ request' = [endpoint |-> "/extract", filename |-> filename]
    /\ response' = ErrorResponse(400,
                       IF filename = NoFile THEN "No file provided"
                       ELSE "Empty filename", 0)
    /\ UNCHANGED <<model_vars, tmp_files>>

\* lines 94-108: the options, the temporary file, the lazy initialisation.
\* The handler is then at the call of process_pdf (line 111).
A_serve(filename, flags, output_format) ==
    /\ request' = [endpoint |-> "/extract", filename |-> filename,
                   flags |-> flags, output_format |-> output_format]
    /\ tmp_files' = tmp_files \cup {TempPath(filename)}
    /\ IF all_models
       THEN /\ response' = Processing
            /\ UNCHANGED model_vars
       ELSE \E raised_at \in InitOutcomes :
               LET m == initialize_models(raised_at)
               IN /\ layout_model' = m.layout_model
                  /\ table_model' = m.table_model
                  /\ formula_model' = m.formula_model
                  /\ ocr_model' = m.ocr_model
                  /\ response' =
                        IF m.ok THEN Processing
                        ELSE ErrorResponse(500, "Failed to initialize models", 0)

A_extract_document ==
    /\ server = "model" /\ response.kind = "none"
    /\ \E filename \in UploadNames :
          IF filename \in {NoFile, ""}
          THEN A_reject(filename)
          ELSE \E flags \in Flags, output_format \in OutputFormats :
                  A_serve(filename, flags, output_format)
    /\ UNCHANGED <<server, fallback_vars, thread_vars>>

\* lines 110-128, the rest of the handler: process_pdf on what was
\* uploaded, os.remove, the response; lines 130-132 when process_pdf or
\* the renderer raises
A_process_pdf ==
    /\ server = "model" /\ response.kind = "processing"
    /\ \E pdf \in ModelPdfs :
          LET run == process_pdf(pdf, request.flags, ocr_model)
          IN /\ request' = SetKey(request, "pdf", pdf)
             /\ IF run.raised
                THEN /\ response' = ErrorResponse(500, "str(e)", run.open_docs)
                     /\ UNCHANGED tmp_files
                ELSE /\ response' =
                            IF RenderRaises(request.output_format, run.result)
                            THEN ErrorResponse(500, "str(e)", run.open_docs)
                            ELSE DocumentResponse(request.output_format,
                                                  run.result, run.open_docs)
                     /\ tmp_files' = tmp_files \ {TempPath(request.filename)}
    /\ UNCHANGED <<server, model_vars, fallback_vars, thread_vars>>

\* the response has been sent
finish_request ==
    /\ response.kind \notin {"none", "processing"}
    /\ request' = NoRequest
    /\ response' = NoResponse
    /\ UNCHANGED <<server, model_vars, fallback_vars, tmp_files, thread_vars>>

----------------------------------------------------------------------------
(* pdf_extract_server.py: load_models and the request handlers.            *)

\* What acquiring one provider does: it is built, its package is missing
\* (ImportError, handled by the inner try), or it raises something else.
LoadOutcomes == {"ok", "ImportError", "error"}

load_models(layout_out, ocr_out) ==
    IF models_loaded
    THEN [models_loaded |-> TRUE, layout_detector |-> layout_detector,
          ocr_engine |-> ocr_engine, ok |-> TRUE]
    ELSE IF layout_out = "error"
    THEN [models_loaded |-> FALSE, layout_detector |-> layout_detector,
          ocr_engine |-> ocr_engine, ok |-> FALSE]
    ELSE IF ocr_out = "error"
    THEN [models_loaded |-> FALSE,
          layout_detector |-> layout_detector \/ layout_out = "ok",
          ocr_engine |-> ocr_engine, ok |-> FALSE]
    ELSE [models_loaded |-> TRUE,
          layout_detector |-> layout_detector \/ layout_out = "ok",
          ocr_engine |-> ocr_engine \/ ocr_out = "ok", ok |-> TRUE]

B_health_check ==
    /\ server = "fallback" /\ response.kind = "none"
    /\ request' = [endpoint |-> "/health"]
    /\ response' = [kind |-> "status", status |-> 200,
                    models_loaded |-> models_loaded]
    /\ UNCHANGED <<server, model_vars, fallback_vars, tmp_files, thread_vars>>

B_models_status ==
    /\ server = "fallback" /\ response.kind = "none"
    /\ request' = [endpoint |-> "/models/status"]
    /\ response' = [kind |-> "status", status |-> 200,
                    models_loaded |-> models_loaded,
                    available_models |->
                        [layout_detector |-> layout_detector,
                         table_extractor |-> table_extractor,
                         ocr_engine |-> ocr_engine]]
    /\ UNCHANGED <<server, model_vars, fallback_vars, tmp_files, thread_vars>>

B_load_models_endpoint ==
    /\ server = "fallback" /\ response.kind = "none"
    /\ \E layout_out \in LoadOutcomes, ocr_out \in LoadOutcomes :
          LET m == load_models(layout_out, ocr_out)
          IN /\ models_loaded' = m.models_loaded
             /\ layout_detector' = m.layout_detector
             /\ ocr_engine' = m.ocr_engine
             /\ request' = [endpoint |-> "/models/load"]
             /\ response' = [kind |-> "status", status |-> 200,
                             success |-> m.ok,
                             models_loaded |-> m.models_loaded]
    /\ UNCHANGED <<server, model_vars, table_extractor, tmp_files, thread_vars>>

\* lines 232-273.  The options are parsed and passed to nothing; the
\* temporary file has a fresh name and the finally clause unlinks it.
B_extract_document ==
    /\ server = "fallback" /\ response.kind = "none"
    /\ \E filename \in UploadNames :
          IF filename \in {NoFile, ""}
          THEN /\ request' = [endpoint |-> "/extract", filename |-> filename]
               /\ response' = ErrorResponse(400,
                                  IF filename = NoFile THEN "No file provided"
                                  ELSE "Empty filename", 0)
               /\ UNCHANGED tmp_files
          ELSE \E flags \in Flags, pdf \in FallbackPdfs :
                  LET temp_path == <<"/tmp/", "tmp", "fresh", ".pdf">>
                      got == IF models_loaded
                             THEN extract_with_pdf_extract_kit(pdf)
                             ELSE extract_with_basic_tools(pdf)
                  IN /\ request' = [endpoint |-> "/extract",
                                    filename |-> filename, flags |-> flags,
                                    pdf |-> pdf]
                     /\ response' = DocumentResponse("json", got.result,
                                                     got.open_docs)
                     /\ tmp_files' = (tmp_files \cup {temp_path}) \ {temp_path}
    /\ UNCHANGED <<server, model_vars, fallback_vars, thread_vars>>

----------------------------------------------------------------------------
(* The servers, one request at a time.                                     *)

Init ==
    /\ server \in {"model", "fallback"}
    /\ layout_model = FALSE /\ table_model = FALSE
    /\ formula_model = FALSE /\ ocr_model = FALSE
    /\ models_loaded = FALSE /\ layout_detector = FALSE
    /\ table_extractor = FALSE /\ ocr_engine = FALSE
    /\ tmp_files = {}
    /\ request = NoRequest
    /\ response = NoResponse
    /\ pc = [t \in 1..NumThreads |-> "idle"]
    /\ t_path = [t \in 1..NumThreads |-> <<>>]
    /\ t_ok = [t \in 1..NumThreads |-> TRUE]

Next ==
    \/ A_health_check
    \/ A_extract_document
    \/ A_process_pdf
    \/ B_health_check
    \/ B_models_status
    \/ B_load_models_endpoint
    \/ B_extract_document
    \/ finish_request

Spec == Init /\ [][Next]_vars

----------------------------------------------------------------------------
(* The servers under Flask's threaded development server (app.run): each   *)
(* request runs on its own thread, and threads interleave wherever a       *)
(* handler calls out (saving the upload, building a model, the             *)
(* extraction, os.remove).  An extraction here works on a document of no   *)
(* pages or on one that cannot be read.                                    *)

Threads == 1..NumThreads

\* the positions inside initialize_models (api_server.py) and inside
\* load_models (pdf_extract_server.py)
InitPcs == {"import", "layout", "table", "formula", "ocr"}
LoadPcs == {"load_layout", "load_ocr"}

Goto(t, where) == pc' = [pc EXCEPT ![t] = where]
Return(t, ok) == pc' = [pc EXCEPT ![t] = "idle"] /\ t_ok' = [t_ok EXCEPT ![t] = ok]

\* api_server.py lines 87-103: a request with a file; the upload is saved
T_save(t) ==
    /\ server = "model" /\ pc[t] = "idle"
    /\ \E filename \in Filenames :
          /\ t_path' = [t_path EXCEPT ![t] = TempPath(filename)]
          /\ tmp_files' = tmp_files \cup {TempPath(filename)}
    /\ Goto(t, "check")
    /\ UNCHANGED <<server, model_vars, fallback_vars, request, response, t_ok>>

\* line 106: if not all([...]), initialize_models() is entered
T_check(t) ==
    /\ server = "model" /\ pc[t] = "check"
    /\ Goto(t, IF all_models THEN "process" ELSE "import")
    /\ UNCHANGED <<server, model_vars, fallback_vars, tmp_files, request,
                   response, t_path, t_ok>>

\* lines 41-52: one step of the try block succeeds: the import, or the
\* construction of one model and its assignment to the global
T_init_step(t) ==
    /\ server = "model" /\ pc[t] \in InitPcs
    /\ layout_model' = (layout_model \/ pc[t] = "layout")
    /\ table_model' = (table_model \/ pc[t] = "table")
    /\ formula_model' = (formula_model \/ pc[t] = "formula")
    /\ ocr_model' = (ocr_model \/ pc[t] = "ocr")
    /\ Goto(t, IF pc[t] = "ocr" THEN "process"
               ELSE InitSteps[StepIndex(pc[t]) + 1])
    /\ UNCHANGED <<server, fallback_vars, tmp_files, request, response,
                   t_path, t_ok>>

\* lines 56-58 and 107-108: the step raises, initialize_models returns
\* False and the handler answers 500
T_init_raise(t) ==
    /\ server = "model" /\ pc[t] \in InitPcs
    /\ Return(t, FALSE)
    /\ UNCHANGED <<server, model_vars, fallback_vars, tmp_files, request,
                   response, t_path>>

\* lines 111-117: process_pdf; it raises when the file is gone or cannot
\* be read, and the handler answers 500 (lines 130-132)
T_process(t) ==
    /\ server = "model" /\ pc[t] = "process"
    /\ \E readable \in Booleans :
          LET pdf == [readable |-> readable /\ t_path[t] \in tmp_files,
                      pages |-> <<>>]
              flags == [extract_text |-> TRUE, extract_tables |-> TRUE,
                        extract_images |-> TRUE, extract_formulas |-> TRUE]
          IN IF process_pdf(pdf, flags, ocr_model).raised
             THEN Return(t, FALSE)
             ELSE Goto(t, "remove") /\ UNCHANGED t_ok
    /\ UNCHANGED <<server, model_vars, fallback_vars, tmp_files, request,
                   response, t_path>>

\* line 120: os.remove(temp_path) raises when the file is gone
T_remove(t) ==
    /\ server = "model" /\ pc[t] = "remove"
    /\ tmp_files' = tmp_files \ {t_path[t]}
    /\ Return(t, t_path[t] \in tmp_files)
    /\ UNCHANGED <<server, model_vars, fallback_vars, request, response, t_path>>

\* pdf_extract_server.py lines 36-37: POST /models/load enters load_models
L_enter(t) ==
    /\ server = "fallback" /\ pc[t] = "idle"
    /\ IF models_loaded THEN Return(t, TRUE)
       ELSE Goto(t, "load_layout") /\ UNCHANGED t_ok
    /\ UNCHANGED <<server, model_vars, fallback_vars, tmp_files, request,
                   response, t_path>>

\* lines 43-48: the layout detector
L_layout(t) ==
    /\ server = "fallback" /\ pc[t] = "load_layout"
    /\ \E out \in LoadOutcomes :
          /\ layout_detector' = (layout_detector \/ out = "ok")
          /\ IF out = "error" THEN Return(t, FALSE)
             ELSE Goto(t, "load_ocr") /\ UNCHANGED t_ok
    /\ UNCHANGED <<server, model_vars, models_loaded, table_extractor,
                   ocr_engine, tmp_files, request, response, t_path>>

\* lines 50-62: the OCR engine, then models_loaded = True
L_ocr(t) ==
    /\ server = "fallback" /\ pc[t] = "load_ocr"
    /\ \E out \in LoadOutcomes :
          /\ ocr_engine' = (ocr_engine \/ out = "ok")
          /\ models_loaded' = (models_loaded \/ out # "error")
          /\ Return(t, out # "error")
    /\ UNCHANGED <<server, model_vars, layout_detector, table_extractor,
                   tmp_files, request, response, t_path>>

ThreadNext ==
    \E t \in Threads :
        \/ T_save(t)
        \/ T_check(t)
        \/ T_init_step(t)
        \/ T_init_raise(t)
        \/ T_process(t)
        \/ T_remove(t)
        \/ L_enter(t)
        \/ L_layout(t)
        \/ L_ocr(t)

SpecThreads == Init /\ [][ThreadNext]_vars

----------------------------------------------------------------------------
(* Properties.                                                             *)

\* the handler of an extraction request has answered
Answered == request.endpoint = "/extract" /\ response.kind \in {"error", "document"}

\* the handler read the uploaded document
Extracted == Answered /\ "pdf" \in DOMAIN request

HasCounts(result) ==
    /\ {"totalPages", "totalTables", "totalImages", "totalFormulas",
        "textLength"} \subseteq DOMAIN result.metadata
    /\ result.metadata.totalPages = Len(result.layout.pages)
    /\ result.metadata.totalTables = Len(result.tables)
    /\ result.metadata.totalImages = Len(result.images)
    /\ result.metadata.totalFormulas = Len(result.formulas)
    /\ result.metadata.textLength = Len(result.text)

\* C1: every Document an extraction run returns carries, in its metadata,
\* totalPages, totalTables, totalImages, totalFormulas and textLength equal
\* to the sizes of pages, tables, images, formulas and text.
C1_MetadataCounts ==
    response.kind = "document" => HasCounts(response.result)

\* an earlier initialisation of api_server.py failed part-way: some of the
\* four handles are set and some are not
Degraded ==
    /\ server = "model"
    /\ layout_model \/ table_model \/ formula_model \/ ocr_model
    /\ ~all_models

InitError ==
    response.kind = "error" /\ response.error = "Failed to initialize models"

\* C2: once the acquisition of a capability provider has failed, the
\* selector stays Degraded and every later extraction request is served by
\* the fallback providers: no later request is answered with an
\* initialisation error and none makes the selector Ready.
C2_DegradedServesFallback ==
    [][Degraded => ~InitError' /\ ~all_models']_vars

\* what the selector reports through /health and /models/status
ReportsReady == IF server = "model" THEN all_models ELSE models_loaded

\* every capability provider the program holds a handle for is set
AllAcquired ==
    IF server = "model" THEN all_models
    ELSE layout_detector /\ table_extractor /\ ocr_engine

\* C3: in every reachable state the selector reports Ready only if every
\* capability provider was acquired.
C3_ReadyOnlyIfAllAcquired == ReportsReady => AllAcquired

\* an acquisition has been made: the selector has left NotAttempted
LeftNotAttempted ==
    \/ layout_model \/ table_model \/ formula_model \/ ocr_model
    \/ models_loaded \/ layout_detector \/ ocr_engine

\* C4: once the selector has left NotAttempted, no call of the readiness
\* check acquires a provider or changes the selector state or the handles.
C4_ReadinessIdempotent ==
    [][LeftNotAttempted => UNCHANGED <<model_vars, fallback_vars>>]_vars

\* C5: when requests make the first readiness call concurrently, one
\* initialisation attempt runs: no two threads are inside the
\* initialisation at once, and none starts processing with only some of
\* the providers set.
C5_SingleInitialisation ==
    /\ Cardinality({t \in Threads : pc[t] \in InitPcs \cup LoadPcs}) <= 1
    /\ \A t \in Threads : pc[t] = "process" => all_models

\* the flag an element type is extracted under
FlagOf(type) ==
    IF type \in TextTypes THEN "extract_text"
    ELSE IF type = "table" THEN "extract_tables"
    ELSE IF type = "formula" THEN "extract_formulas"
    ELSE "extract_images"

AllElements(result) ==
    Flatten([i \in 1..Len(result.layout.pages) |->
                 result.layout.pages[i].elements])

\* C6: an element whose type maps to a disabled flag has no content, and a
\* disabled flag leaves its collection (tables, images, formulas) empty.
C6_DisabledFlagExtractsNothing ==
    response.kind = "document" =>
        LET result == response.result
            elements == AllElements(result)
        IN /\ \A i \in 1..Len(elements) :
                  ~request.flags[FlagOf(elements[i].type)]
                      => "content" \notin DOMAIN elements[i]
           /\ ~request.flags.extract_tables => result.tables = <<>>
           /\ ~request.flags.extract_images => result.images = <<>>
           /\ ~request.flags.extract_formulas => result.formulas = <<>>

\* C7: an upload that cannot be opened or parsed is answered with an
\* error, never with a Document.
C7_UnreadableInputIsAnError ==
    Extracted /\ ~request.pdf.readable => response.kind = "error"

\* the regions of the upload whose extractor fails although their flag is on
FailingRegions(pdf, flags) ==
    LET regions == Flatten([i \in 1..Len(pdf.pages) |-> pdf.pages[i].elements])
    IN {i \in 1..Len(regions) :
          /\ flags[FlagOf(regions[i].type)]
          /\ \/ regions[i].type \in TextTypes /\ regions[i].ocr.raises
             \/ regions[i].type = "table" /\ regions[i].table.raises
             \/ regions[i].type = "formula" /\ regions[i].formula.raises
             \/ regions[i].type \in ImageTypes /\ regions[i].image.fails # "no"}

\* C8: the failure of a region extractor on an element does not abort the
\* document: the model-based server answers a readable upload with a
\* Document that has an element for every region detected.
C8_ExtractorFailureIsLocal ==
    server = "model" /\ Extracted /\ request.pdf.readable
        /\ FailingRegions(request.pdf, request.flags) # {}
    => /\ response.kind = "document"
       /\ Len(AllElements(response.result))
              = Len(Flatten([i \in 1..Len(request.pdf.pages) |->
                                 request.pdf.pages[i].elements]))

\* C9: a failure while one page is processed does not abort the document:
\* a readable upload is answered with a Document that has every physical
\* page, and totalPages is the physical page count.
C9_PageFailureIsLocal ==
    Extracted /\ request.pdf.readable
    => /\ response.kind = "document"
       /\ Len(response.result.layout.pages) = Len(request.pdf.pages)
       /\ "totalPages" \in DOMAIN response.result.metadata
       /\ response.result.metadata.totalPages = Len(request.pdf.pages)

\* C10: when an extraction request is answered, its temporary file has
\* been removed and every document handle it opened has been closed.
C10_ResourcesReleased ==
    Answered => /\ response.open_docs = 0
                /\ server = "model" /\ request.filename \in Filenames
                       => TempPath(request.filename) \notin tmp_files
                /\ server = "fallback" => tmp_files = {}

\* the pages of the Document being returned
Pages == response.result.layout.pages

\* C11: in every returned Document the i-th page has pageNumber i: the page
\* numbers are 1-based and contiguous, without gaps or repeats.
C11_ContiguousPageNumbers ==
    response.kind = "document" =>
        \A i \in 1..Len(Pages) : Pages[i].pageNumber = i

\* a Document of two pages has been returned by the model-based server
C11_Witness ==
    /\ server = "model" /\ response.kind = "document"
    /\ Len(Pages) = 2 /\ Pages[2].pageNumber = 2

\* the same for the fallback server, whose loop counts pages from 0
C11_WitnessFallback ==
    /\ server = "fallback" /\ response.kind = "document"
    /\ Len(Pages) = 2 /\ Pages[2].pageNumber = 2

\* the elements of a Document whose type is in `types`, in page order and
\* then detection order, each with the number of its page
TypedElements(result, types) ==
    LET pages == result.layout.pages
    IN Flatten([i \in 1..Len(pages) |->
           LET es == SelectSeq(pages[i].elements, LAMBDA e : e.type \in types)
           IN [k \in 1..Len(es) |->
                  [pageNumber |-> pages[i].pageNumber, element |-> es[k]]]])

\* a collection has one entry per such element, in the same order
Follows(collection, typed) ==
    /\ Len(collection) = Len(typed)
    /\ \A k \in 1..Len(typed) :
          /\ collection[k].pageNumber = typed[k].pageNumber
          /\ collection[k].bbox = typed[k].element.bbox

\* C12: with its flag enabled, each of tables, images and formulas is the
\* sequence of the results for the elements of the matching type, in page
\* order and then detection order, one entry per element.
C12_CollectionsInDetectionOrder ==
    response.kind = "document" =>
        LET result == response.result
        IN /\ request.flags.extract_tables =>
                  Follows(result.tables, TypedElements(result, {"table"}))
           /\ request.flags.extract_images =>
                  Follows(result.images, TypedElements(result, ImageTypes))
           /\ request.flags.extract_formulas =>
                  Follows(result.formulas, TypedElements(result, {"formula"}))

\* two tables detected on the same page, at different places, are returned
C12_Witness ==
    /\ server = "model" /\ response.kind = "document"
    /\ request.flags.extract_tables
    /\ Len(response.result.tables) = 2
    /\ response.result.tables[1].bbox # response.result.tables[2].bbox
    /\ response.result.tables[1].pageNumber = response.result.tables[2].pageNumber

\* C13: with extract_text enabled, the text of a returned Document is the
\* concatenation, in page order and then detection order, of the content of
\* its text, title and header elements, each followed by one space; the
\* content of such an element is the text extracted for it, unaltered.
\* Stated of the Documents that have such an element.
C13_TextIsContentsSpaceSeparated ==
    response.kind = "document" /\ request.flags.extract_text =>
        LET texts == TypedElements(response.result, TextTypes)
        IN texts # <<>> =>
           /\ \A k \in 1..Len(texts) : "content" \in DOMAIN texts[k].element
           /\ response.result.text =
                  Flatten([k \in 1..Len(texts) |->
                              texts[k].element.content \o Space])

\* floor(x) of a coordinate held in half points
floor(h) == h \div 2

\* "{type}_{pageNumber}_{floor(x0)}_{floor(y0)}" of an entry of a collection
SchemeId(type, entry) ==
    <<type, "_", ToString(entry.pageNumber), "_",
      ToString(floor(entry.bbox[1])), "_", ToString(floor(entry.bbox[2]))>>

HasSchemeIds(type, collection) ==
    \A k \in 1..Len(collection) : collection[k].id = SchemeId(type, collection[k])

\* C14: under both strategies, the id of every table, image and formula of
\* a returned Document is "{type}_{pageNumber}_{floor(x0)}_{floor(y0)}",
\* built from the entry's own type, pageNumber and bbox.
C14_IdentifierScheme ==
    response.kind = "document" =>
        /\ HasSchemeIds("table", response.result.tables)
        /\ HasSchemeIds("image", response.result.images)
        /\ HasSchemeIds("formula", response.result.formulas)

\* an upload of no pages was processed and HTML or Markdown was asked for
RendersEmpty(output_format) ==
    /\ server = "model" /\ Extracted
    /\ request.pdf.readable /\ request.pdf.pages = <<>>
    /\ request.output_format = output_format

\* C15: the HTML and Markdown renderers complete without error on a
\* Document of no pages, no text and empty collections, and return the
\* shell: the title and the page count, no text section, no tables section.
C15_RenderersTolerateEmptyDocument ==
    /\ RendersEmpty("html") =>
          /\ response.kind = "document"
          /\ Body(response) = <<"<html><body>", "<h1>Extracted Document</h1>",
                                "<p>Pages: ", "0", "</p>", "</body></html>">>
    /\ RendersEmpty("markdown") =>
          /\ response.kind = "document"
          /\ Body(response) = <<"# Extracted Document\n\n",
                                "**Pages:** ", "0", "\n\n">>

\* the empty Document has been rendered as HTML
C15_Witness ==
    /\ RendersEmpty("html") /\ response.kind = "document"
    /\ response.result.layout.pages = <<>> /\ response.result.text = <<>>
    /\ response.result.tables = <<>> /\ response.result.images = <<>>
    /\ response.result.formulas = <<>>

\* the step is the handling of an extraction request that has no file part
\* or an empty filename
RejectedUpload ==
    /\ request'.endpoint = "/extract"
    /\ request'.filename \in {NoFile, ""}

\* C16: a request with no file part or with an empty filename is answered
\* at once with an input error (400), and handling it writes no temporary
\* file, attempts no model initialisation and runs no extraction.
C16_InputErrorHasNoSideEffect ==
    [][RejectedUpload =>
          /\ response'.kind = "error" /\ response'.status = 400
          /\ "pdf" \notin DOMAIN request'
          /\ UNCHANGED <<tmp_files, model_vars, fallback_vars>>]_vars

\* a request with an empty filename has been rejected by the model-based
\* server, before any model was initialised
C16_Witness ==
    /\ server = "model" /\ Answered /\ request.filename = ""
    /\ response.status = 400 /\ response.error = "Empty filename"
    /\ ~layout_model /\ tmp_files = {}

\* C17: whatever the extract_formulas flag, a Document of the fallback
\* server has no element of type formula and an empty formulas collection.
C17_FallbackHasNoFormulas ==
    server = "fallback" /\ response.kind = "document" =>
        /\ response.result.formulas = <<>>
        /\ TypedElements(response.result, {"formula"}) = <<>>
        /\ Get(response.result.metadata, "totalFormulas", 0) = 0

\* the fallback server has extracted a document with an image on request of
\* the formulas
C17_Witness ==
    /\ server = "fallback" /\ response.kind = "document"
    /\ request.flags.extract_formulas
    /\ response.result.images # <<>>
    /\ response.result.formulas = <<>>

\* the pieces of a rendering
Pieces(body) == {body[i] : i \in 1..Len(body)}

\* the sections the HTML rendering of a Document is to have
HtmlHead(result) ==
    <<"<h1>Extracted Document</h1>",
      "<p>Pages: ", ToString(Len(result.layout.pages)), "</p>">>
HtmlText(result) ==
    IF result.text = <<>> THEN <<>>
    ELSE <<"<h2>Text Content</h2>", "<p>">> \o result.text \o <<"</p>">>
HtmlTables(result) ==
    IF result.tables = <<>> THEN <<>>
    ELSE <<"<h2>Tables (", ToString(Len(result.tables)), ")</h2>">>
         \o Flatten([i \in 1..Len(result.tables) |-> result.tables[i].html])

\* and those of the Markdown rendering
MarkdownHead(result) ==
    <<"# Extracted Document\n\n",
      "**Pages:** ", ToString(Len(result.layout.pages)), "\n\n">>
MarkdownText(result) ==
    IF result.text = <<>> THEN <<>>
    ELSE <<"## Text Content\n\n">> \o result.text \o <<"\n\n">>
MarkdownTables(result) ==
    IF result.tables = <<>> THEN <<>>
    ELSE <<"## Tables (", ToString(Len(result.tables)), ")\n\n">>
         \o Flatten([i \in 1..Len(result.tables) |->
                        result.tables[i].markdown \o <<"\n\n">>])

\* nothing of the images or of the formulas is in the rendering
EmbedsNoImageOrFormula(body, result) ==
    /\ \A i \in 1..Len(result.images) :
          Pieces(result.images[i].base64) \cap Pieces(body) = {}
    /\ \A i \in 1..Len(result.formulas) :
          Pieces(result.formulas[i].latex) \cap Pieces(body) = {}

\* C18: the HTML and the Markdown rendering of a Document are, in this
\* order, the title, the page count, a text section iff the text is not
\* empty, and a tables section iff there are tables, which embeds the html
\* (resp. markdown) of each table in document order; nothing of the images
\* or the formulas is embedded.
C18_RenderingStructure ==
    response.kind = "document" =>
        LET result == response.result
        IN /\ response.format = "html" =>
                 /\ Body(response) =
                        <<"<html><body>">> \o HtmlHead(result)
                        \o HtmlText(result) \o HtmlTables(result)
                        \o <<"</body></html>">>
                 /\ EmbedsNoImageOrFormula(Body(response), result)
           /\ response.format = "markdown" =>
                 /\ Body(response) =
                        MarkdownHead(result) \o MarkdownText(result)
                        \o MarkdownTables(result)
                 /\ EmbedsNoImageOrFormula(Body(response), result)

\* two tables with different renderings have been rendered as Markdown
C18_Witness ==
    /\ response.kind = "document" /\ response.format = "markdown"
    /\ Len(response.result.tables) = 2
    /\ response.result.tables[1].markdown # <<>>
    /\ response.result.tables[2].markdown # <<>>
    /\ response.result.tables[1].markdown # response.result.tables[2].markdown

\* the same as HTML
C18_WitnessHtml ==
    /\ response.kind = "document" /\ response.format = "html"
    /\ Len(response.result.tables) = 2
    /\ response.result.tables[1].html # <<>>
    /\ response.result.tables[2].html # <<>>
    /\ response.result.tables[1].html # response.result.tables[2].html

\* a text section, and a formula that is not embedded
C18_WitnessText ==
    /\ response.kind = "document" /\ response.format = "html"
    /\ response.result.text # <<>> /\ response.result.formulas # <<>>
    /\ response.result.formulas[1].latex # <<>>

\* the height of a bbox is more than 50 points (coordinates in half points)
TallerThan50(bbox) == bbox[4] - bbox[2] > 2 * 50

\* C19: the kind of every entry of formulas (its 'type' field) is block or
\* inline, and it is block exactly when the height of the entry's bbox is
\* more than 50; so also for the entry of a formula whose extraction failed.
C19_FormulaKindByHeight ==
    response.kind = "document" =>
        \A i \in 1..Len(response.result.formulas) :
            LET formula == response.result.formulas[i]
            IN /\ formula.type \in {"block", "inline"}
               /\ formula.type = "block" <=> TallerThan50(formula.bbox)

\* the summary an element carries of the entry it produced
TableSummary(table) == <<"Table with ", ToString(Len(table.data)), " rows">>
FormulaSummary(formula) == formula.latex
ImageSummary(image) == <<"Image">>

\* the k-th entry of a collection against the k-th element of its type
StampedAndSummarised(collection, typed, Summary(_)) ==
    \A k \in 1..Len(collection) :
        /\ k <= Len(typed)
        /\ collection[k].pageNumber = typed[k].pageNumber
        /\ "content" \in DOMAIN typed[k].element
        /\ typed[k].element.content = Summary(collection[k])

\* C20: each table, formula and image entry carries the pageNumber of the
\* page whose element produced it, and the content of that element is the
\* summary of the entry: "Table with N rows" for the N rows of its data,
\* its LaTeX string, or the label "Image".
C20_PageStampAndSummary ==
    response.kind = "document" =>
        LET result == response.result
        IN /\ StampedAndSummarised(result.tables,
                  TypedElements(result, {"table"}), TableSummary)
           /\ StampedAndSummarised(result.formulas,
                  TypedElements(result, {"formula"}), FormulaSummary)
           /\ StampedAndSummarised(result.images,
                  TypedElements(result, ImageTypes), ImageSummary)

\* a table of two rows detected on the second page has been returned
C20_Witness ==
    /\ server = "model" /\ response.kind = "document"
    /\ Len(response.result.tables) = 1
    /\ Len(response.result.tables[1].data) = 2
    /\ response.result.tables[1].pageNumber = 2

\* an element of the Document against the region the layout model detected
PassedThrough(element, region) ==
    /\ element.type = region.type
    /\ element.bbox = region.bbox
    /\ "confidence" \in DOMAIN element
    /\ "confidence" \in DOMAIN region => element.confidence = region.confidence

\* C21: whatever the extraction flags, each page of a Document of the
\* model-based server has one element per region the layout model detected
\* on that page, in detection order, with the type, the bbox and the
\* confidence the layout model gave.
C21_ElementsPassThrough ==
    server = "model" /\ response.kind = "document" =>
        /\ Len(Pages) = Len(request.pdf.pages)
        /\ \A i \in 1..Len(Pages) :
              LET elements == Pages[i].elements
                  regions == request.pdf.pages[i].elements
              IN /\ Len(elements) = Len(regions)
                 /\ \A k \in 1..Len(regions) :
                       PassedThrough(elements[k], regions[k])

\* two regions of different types detected on one page, one of a type whose
\* flag is disabled, have been returned
C21_Witness ==
    /\ server = "model" /\ response.kind = "document"
    /\ Len(Pages) >= 1 /\ Len(Pages[1].elements) = 2
    /\ Pages[1].elements[1].type # Pages[1].elements[2].type
    /\ "content" \in DOMAIN Pages[1].elements[1]
    /\ ~request.flags[FlagOf(Pages[1].elements[2].type)]

\* the request of thread t has saved its temporary file and has not yet
\* removed it nor been answered
InFlight(t) ==
    server = "model" /\ pc[t] \in {"check", "process", "remove"} \cup InitPcs

\* C22: in the model-based server each request in flight has exclusive use
\* of its temporary path: no two requests in flight hold the same path
\* (so none saves over the file of another), and the file of a request in
\* flight exists until that request removes it.
C22_TempPathIsExclusive ==
    \A t \in Threads : InFlight(t) =>
        /\ t_path[t] \in tmp_files
        /\ \A u \in Threads \ {t} : InFlight(u) => t_path[u] # t_path[t]

\* one of the four model handles of api_server.py is set
some_model == layout_model \/ table_model \/ formula_model \/ ocr_model

\* C23: initialize_models is all-or-nothing: after a call that returned
\* False (the request is answered 'Failed to initialize models') the four
\* handles are unset, and no sequence of calls leaves only some of them
\* set: when one is set, all four are.
C23_InitialisationAllOrNothing ==
    /\ InitError => ~some_model
    /\ some_model => all_models

====
